---------------------------- MODULE Spec2Model ----------------------------
(***************************************************************************)
(* Model of unseal-vault (src/main.go): the orchestration in main(), the   *)
(* three HTTP calls (vaultStatus, initializeVault, unsealVault) and the    *)
(* two persistence variants of readConf / writeConf.                       *)
(*                                                                         *)
(* The remote vault and the two stores (files, one Kubernetes secret) are  *)
(* the environment.  Every HTTP exchange has one of four outcomes:         *)
(*   "transport"  c.Do or ReadAll returned an error;                       *)
(*   "malformed"  a body that is not JSON;                                 *)
(*   "errdoc"     a JSON error document {"errors": [...]} sent with a      *)
(*                non-2xx status, the service having done nothing;         *)
(*   "ok"         the service handled the request (and may itself have     *)
(*                rejected it, answering with an error document).          *)
(* The program never looks at the HTTP status code, and json.Unmarshal     *)
(* ignores unknown fields, so an error document decodes without error to   *)
(* the zero value of the response type.                                    *)
(***************************************************************************)
EXTENDS Integers, Sequences, FiniteSets, TLC

\* ---------------------------------------------------------------- bounds
MaxShares == 2      \* -secret-shares ranges over 1..MaxShares
MaxPolls == 2       \* failed status polls of one run before the model stops failing them
MaxRuns == 2        \* invocations of the program, one after the other

\* The orchestrator instances that may exist at the same time.
Procs == {1, 2}

\* --------------------------------------------------------- Go data values
\* A Go []string: nil, or a slice with elements.
Nil == [isNil |-> TRUE, elems |-> <<>>]
Slice(seq) == [isNil |-> FALSE, elems |-> seq]
\* A JSON value for an array field: null, or an array.
JsonNull == [null |-> TRUE, arr |-> <<>>]
JsonArray(seq) == [null |-> FALSE, arr |-> seq]
Key(n) == <<"key", n>>               \* the n-th key share of an earlier initialization
RootTok == "s.root"                  \* the root token of an earlier initialization
NewKey(n) == <<"new", n>>            \* the n-th key share a new initialization issues
NewRootTok == "s.new"                \* the root token a new initialization issues
Paths == {"/tmp/vault-init.json", "/tmp/other.json"}
DefaultPath == "/tmp/vault-init.json"

GoLen(keys) == Len(keys.elems)

\* The zero values json.Unmarshal leaves when the document has none of the fields.
ZeroStatus == [Initialized |-> FALSE, Sealed |-> FALSE, T |-> 0, N |-> 0, Progress |-> 0]
ZeroInitResponse == [Keys |-> Nil, RootToken |-> ""]
ZeroUnsealResponse == [Sealed |-> FALSE]

HttpOutcomes == {"transport", "malformed", "errdoc", "ok"}

\* ------------------------------------------------------------------ JSON
\* A stored document: absent, bytes that are not JSON, or a JSON object.
NoDoc == [kind |-> "absent"]
Garbage == [kind |-> "garbage"]

\* Mutant: the root token is left out of the document.
MarshalInitResponse_NoToken(r) ==
    [kind |-> "json",
     keys |-> IF r.Keys.isNil THEN JsonNull ELSE JsonArray(r.Keys.elems)]

\* json.Marshal(&initResult): a nil slice is written as null.
MarshalInitResponse(r) ==
    [kind |-> "json",
     keys |-> IF r.Keys.isNil THEN JsonNull ELSE JsonArray(r.Keys.elems),
     root_token |-> r.RootToken]

\* The error document a service sends with a non-2xx status.
ErrDoc == [kind |-> "json", errors |-> "error"]

HasField(doc, f) == f \in DOMAIN doc

\* json.Unmarshal(b, &initResult) into a VaultInitResponse: an error on bytes that
\* are not JSON (no bytes at all included); a missing field or null leaves the
\* zero value; unknown fields are ignored.
UnmarshalInitResponse(doc) ==
    IF doc.kind # "json"
    THEN [err |-> TRUE, val |-> ZeroInitResponse]
    ELSE [err |-> FALSE,
          val |-> [Keys |-> IF HasField(doc, "keys") /\ ~doc.keys.null
                            THEN Slice(doc.keys.arr) ELSE Nil,
                   RootToken |-> IF HasField(doc, "root_token")
                                 THEN doc.root_token ELSE ""]]

\* json.Unmarshal(b, &status) into a VaultStatus.
UnmarshalStatus(doc) ==
    IF doc.kind # "json"
    THEN [err |-> TRUE, val |-> ZeroStatus]
    ELSE [err |-> FALSE,
          val |-> [Initialized |-> IF HasField(doc, "initialized") THEN doc.initialized ELSE FALSE,
                   Sealed |-> IF HasField(doc, "sealed") THEN doc.sealed ELSE FALSE,
                   T |-> IF HasField(doc, "t") THEN doc.t ELSE 0,
                   N |-> IF HasField(doc, "n") THEN doc.n ELSE 0,
                   Progress |-> IF HasField(doc, "progress") THEN doc.progress ELSE 0]]

\* json.Unmarshal(b, &vaultResponse) into a VaultUnsealResponse.
UnmarshalUnsealResponse(doc) ==
    IF doc.kind # "json"
    THEN [err |-> TRUE, val |-> ZeroUnsealResponse]
    ELSE [err |-> FALSE,
          val |-> [Sealed |-> IF HasField(doc, "sealed") THEN doc.sealed ELSE FALSE]]

\* ------------------------------------------------ the remote vault service
\* A vault that was never initialized reports sealed.
FreshVault == [initialized |-> FALSE, sealed |-> TRUE, t |-> 0, keys |-> <<>>, progress |-> {}]

IssuedVault(n, t, sealed) ==
    [initialized |-> TRUE, sealed |-> sealed, t |-> t,
     keys |-> [k \in 1..n |-> Key(k)], progress |-> {}]

Range(seq) == {seq[k] : k \in 1..Len(seq)}

\* GET /v1/sys/seal-status
SvcStatus(v) ==
    [kind |-> "json", initialized |-> v.initialized, sealed |-> v.sealed,
     t |-> v.t, n |-> Len(v.keys), progress |-> Cardinality(v.progress)]

\* PUT /v1/sys/init: one initialization only, and the pair must satisfy
\* 1 <= threshold <= shares; anything else is rejected with an error document.
SvcInitAccepts(v, shares, threshold) ==
    ~v.initialized /\ shares >= 1 /\ threshold >= 1 /\ threshold <= shares

SvcInit(v, shares, threshold) ==
    IF SvcInitAccepts(v, shares, threshold)
    THEN [vault |-> [IssuedVault(shares, threshold, TRUE)
                        EXCEPT !.keys = [k \in 1..shares |-> NewKey(k)]],
          body |-> [kind |-> "json", keys |-> JsonArray([k \in 1..shares |-> NewKey(k)]),
                    root_token |-> NewRootTok]]
    ELSE [vault |-> v, body |-> ErrDoc]

\* PUT /v1/sys/unseal: the service accumulates the distinct valid shares it is sent
\* and opens at the threshold; a share it was already sent changes nothing.
SvcUnseal(v, key) ==
    IF ~v.initialized \/ (v.sealed /\ key \notin Range(v.keys))
    THEN [vault |-> v, body |-> ErrDoc]
    ELSE IF ~v.sealed
    THEN [vault |-> v, body |-> [kind |-> "json", sealed |-> FALSE]]
    ELSE LET got == v.progress \cup {key}
         IN IF Cardinality(got) >= v.t
            THEN [vault |-> [v EXCEPT !.sealed = FALSE, !.progress = {}],
                  body |-> [kind |-> "json", sealed |-> FALSE]]
            ELSE [vault |-> [v EXCEPT !.progress = got],
                  body |-> [kind |-> "json", sealed |-> TRUE]]

\* What the HTTP client hands back for an outcome: no body on a transport error.
HttpBody(o, svcBody) ==
    CASE o = "malformed" -> Garbage
      [] o = "errdoc" -> ErrDoc
      [] OTHER -> svcBody

\* ------------------------------------------------------ the program's calls
IoWriteOutcomes == {"ok", "fail"}
IoReadOutcomes == {"ok", "fail"}

\* Mutant: a body that does not parse is taken as the zero status, without error.
vaultStatus_IgnoreParseError(v, o) ==
    IF o = "transport"
    THEN [err |-> TRUE, status |-> ZeroStatus]
    ELSE [err |-> FALSE, status |-> UnmarshalStatus(HttpBody(o, SvcStatus(v))).val]

\* vaultStatus(vaultAddr) under HTTP outcome o.
vaultStatus(v, o) ==
    IF o = "transport"
    THEN [err |-> TRUE, status |-> ZeroStatus]
    ELSE LET d == UnmarshalStatus(HttpBody(o, SvcStatus(v)))
         IN [err |-> d.err, status |-> d.val]

\* initializeVault(vaultAddr, shares, threshold) under HTTP outcome o: the decoded
\* response is returned whenever the body parses, whatever the service answered.
initializeVault(v, shares, threshold, o) ==
    IF o = "transport"
    THEN [err |-> TRUE, val |-> ZeroInitResponse, vault |-> v, svc |-> "none"]
    ELSE LET svc == SvcInit(v, shares, threshold)
             d == UnmarshalInitResponse(HttpBody(o, svc.body))
         IN [err |-> d.err, val |-> d.val,
             vault |-> IF o = "ok" THEN svc.vault ELSE v,
             svc |-> IF o # "ok" THEN "none"
                     ELSE IF SvcInitAccepts(v, shares, threshold) THEN "accepted"
                     ELSE "rejected"]

\* Mutant: the loop does not return on sealed=false and goes on to the next key.
unsealRequest_NoStop(v, key, o) ==
    IF o = "transport"
    THEN [stop |-> TRUE, unsealed |-> FALSE, err |-> "http", vault |-> v, resp |-> "transport"]
    ELSE LET svc == SvcUnseal(v, key)
             d == UnmarshalUnsealResponse(HttpBody(o, svc.body))
             nv == IF o = "ok" THEN svc.vault ELSE v
         IN IF d.err
            THEN [stop |-> TRUE, unsealed |-> FALSE, err |-> "http", vault |-> nv, resp |-> "malformed"]
            ELSE [stop |-> FALSE, unsealed |-> FALSE, err |-> "nil", vault |-> nv,
                  resp |-> IF d.val.Sealed THEN "sealed" ELSE "open"]

\* One iteration of the loop of unsealVault: the request carrying key, under HTTP
\* outcome o.  stop: the function returns in this iteration.
unsealRequest(v, key, o) ==
    IF o = "transport"
    THEN [stop |-> TRUE, unsealed |-> FALSE, err |-> "http", vault |-> v, resp |-> "transport"]
    ELSE LET svc == SvcUnseal(v, key)
             d == UnmarshalUnsealResponse(HttpBody(o, svc.body))
             nv == IF o = "ok" THEN svc.vault ELSE v
         IN IF d.err
            THEN [stop |-> TRUE, unsealed |-> FALSE, err |-> "http", vault |-> nv, resp |-> "malformed"]
            ELSE IF ~d.val.Sealed
            THEN [stop |-> TRUE, unsealed |-> TRUE, err |-> "nil", vault |-> nv, resp |-> "open"]
            ELSE [stop |-> FALSE, unsealed |-> FALSE, err |-> "nil", vault |-> nv, resp |-> "sealed"]

\* The return of unsealVault after its loop: every key was submitted (or there was none).
unsealExhausted == [unsealed |-> FALSE, err |-> "could not unseal vault"]

\* Variant of readConf that returns the empty record where the read or the
\* decoding fails.
readConf_EmptyOnError(fl, fs, sec, io) ==
    LET doc == IF fl.k8sSecret THEN sec ELSE fs[fl.inputFile]
    IN IF io = "fail" \/ doc.kind = "absent"
       THEN [err |-> FALSE, val |-> ZeroInitResponse]
       ELSE [err |-> FALSE, val |-> UnmarshalInitResponse(doc).val]

\* readConf: client == nil selects the file named by the global inputFile,
\* otherwise the secret's "value".
readConf(fl, fs, sec, io) ==
    LET doc == IF fl.k8sSecret THEN sec ELSE fs[fl.inputFile]
    IN IF io = "fail" \/ doc.kind = "absent"
       THEN [err |-> TRUE, val |-> ZeroInitResponse]
       ELSE UnmarshalInitResponse(doc)

\* Mutant: the test of the client is inverted, the remote variant writes the file.
writeConf_InvertedClient(fl, fs, sec, initResult, io) ==
    LET b == MarshalInitResponse(initResult)
    IN IF fl.k8sSecret
       THEN IF io = "ok"
            THEN [err |-> FALSE, files |-> [fs EXCEPT ![fl.outputFile] = b], secret |-> sec]
            ELSE [err |-> TRUE, files |-> fs, secret |-> sec]
       ELSE IF io # "ok" \/ sec.kind # "absent"
            THEN [err |-> TRUE, files |-> fs, secret |-> sec]
            ELSE [err |-> FALSE, files |-> fs, secret |-> b]

\* Mutant: the remote variant updates the secret when it exists (an upsert).
writeConf_Upsert(fl, fs, sec, initResult, io) ==
    LET b == MarshalInitResponse(initResult)
    IN IF ~fl.k8sSecret
       THEN IF io = "ok"
            THEN [err |-> FALSE, files |-> [fs EXCEPT ![fl.outputFile] = b], secret |-> sec]
            ELSE [err |-> TRUE, files |-> fs, secret |-> sec]
       ELSE IF io # "ok"
            THEN [err |-> TRUE, files |-> fs, secret |-> sec]
            ELSE [err |-> FALSE, files |-> fs, secret |-> b]

\* writeConf: ioutil.WriteFile truncates and rewrites the global outputFile;
\* Secrets(ns).Create fails when the secret exists.
writeConf(fl, fs, sec, initResult, io) ==
    LET b == MarshalInitResponse(initResult)
    IN IF ~fl.k8sSecret
       THEN IF io = "ok"
            THEN [err |-> FALSE, files |-> [fs EXCEPT ![fl.outputFile] = b], secret |-> sec]
            ELSE [err |-> TRUE, files |-> fs, secret |-> sec]
       ELSE IF io # "ok" \/ sec.kind # "absent"
            THEN [err |-> TRUE, files |-> fs, secret |-> sec]
            ELSE [err |-> FALSE, files |-> fs, secret |-> b]

\* ------------------------------------------------------------------ state
VARIABLES
    flags,      \* the command-line flags, fixed by flag.Parse()
    vault,      \* the remote service's state
    files,      \* the file system: path -> document
    secret,     \* the secret k8s-ns/k8s-secret-name: its "value", or absent
    orch,       \* per instance of the program: the position and locals of main()
    runNo,      \* how many times the program was started
    lastSave,   \* history: the run and the argument of the last writeConf that returned nil
    lastAbort   \* history: the run before sent this many unseal requests, the last
                \* of them ended by a transport error (0: it was not ended so)

vars == <<flags, vault, files, secret, orch, runNo, lastSave, lastAbort>>

NotStarted ==
    [pc |-> "NOT_STARTED", exit |-> "none",
     status |-> ZeroStatus, initResult |-> ZeroInitResponse, conf |-> ZeroInitResponse,
     i |-> 0, unsealed |-> FALSE, err |-> "nil",
     polls |-> 0, sleeps |-> 0, inits |-> 0, saves |-> 0, loads |-> 0,
     \* history of the run, for the properties
     fails |-> 0,            \* status polls that returned an error
     lastPoll |-> "none",    \* the HTTP outcome of the last status poll
     svcInit |-> "none",     \* what the service did with the init request
     saveOk |-> FALSE,       \* writeConf returned nil
     sent |-> <<>>,          \* the keys of the unseal requests, in the order sent
     resps |-> <<>>,         \* per unseal request: "sealed", "open", "transport", "malformed"
     log |-> <<>>,           \* the requests and store calls of the run, in order
     clean |-> TRUE]         \* no exchange failed so far: every outcome was "ok"

Terminal == {"DONE", "FAILED"}

NoSave == [run |-> 0, val |-> ZeroInitResponse, svcInit |-> "none"]

FlagSets ==
    [secretShares : 1..MaxShares, secretThreshold : 1..(MaxShares + 1),
     k8sSecret : BOOLEAN, outputFile : {DefaultPath}, inputFile : Paths]

\* The documents a store may hold before the first run.
PriorDocs ==
    {NoDoc, Garbage}
    \cup {MarshalInitResponse([Keys |-> Slice([k \in 1..m |-> Key(k)]), RootToken |-> RootTok]) :
            m \in 1..MaxShares}

PriorVaults ==
    {FreshVault}
    \cup {IssuedVault(n, t, sl) : n \in 1..MaxShares, t \in 1..MaxShares, sl \in BOOLEAN}

Init ==
    /\ flags \in {f \in FlagSets : f.k8sSecret => f.inputFile = DefaultPath}
    /\ vault \in {v \in PriorVaults : v.t <= Len(v.keys)}
    /\ \E doc \in PriorDocs :
         /\ files = [p \in Paths |-> doc]
         /\ secret = doc
    /\ orch = [r \in Procs |-> NotStarted]
    /\ runNo = 0
    /\ lastSave = NoSave
    /\ lastAbort = 0

\* ---------------------------------------------------------------- main()
Set(r, upd) == orch' = [orch EXCEPT ![r] = upd]

\* The number of unseal requests of a run that a transport error ended, else 0.
AbortedAt(st) ==
    IF st.resps # <<>> /\ st.resps[Len(st.resps)] = "transport" THEN Len(st.resps) ELSE 0

\* Variant of StartRun in which the position reached in the key sequence outlives
\* the run.
StartRun_KeepsPosition(r) ==
    /\ r = 1
    /\ orch[r].pc \in Terminal \cup {"NOT_STARTED"}
    /\ runNo < MaxRuns
    /\ runNo' = runNo + 1
    /\ Set(r, [NotStarted EXCEPT !.pc = "WAITING_READY", !.i = orch[r].i])
    /\ lastAbort' = AbortedAt(orch[r])
    /\ UNCHANGED <<flags, vault, files, secret, lastSave>>

\* The program is started: flag.Parse(), the client set, "waiting for vault".
\* One run at a time: the program is started again, with fresh locals, once the
\* run before has exited.
StartRun(r) ==
    /\ r = 1
    /\ orch[r].pc \in Terminal \cup {"NOT_STARTED"}
    /\ runNo < MaxRuns
    /\ runNo' = runNo + 1
    /\ Set(r, [NotStarted EXCEPT !.pc = "WAITING_READY"])
    /\ lastAbort' = AbortedAt(orch[r])
    /\ UNCHANGED <<flags, vault, files, secret, lastSave>>

\* Mutant: the loop sleeps after every poll, the successful one included.
PollStatus_SleepAlways(r) ==
    /\ orch[r].pc = "WAITING_READY"
    /\ \E o \in HttpOutcomes :
         LET res == vaultStatus(vault, o)
         IN IF res.err
            THEN /\ orch[r].sleeps < MaxPolls
                 /\ Set(r, [orch[r] EXCEPT !.polls = @ + 1, !.sleeps = @ + 1,
                                            !.fails = @ + 1, !.lastPoll = o,
                                            !.log = Append(@, "status"), !.clean = FALSE])
            ELSE Set(r, [orch[r] EXCEPT !.polls = @ + 1, !.sleeps = @ + 1,
                                        !.status = res.status,
                                        !.lastPoll = o, !.pc = "CHECK_INIT",
                                        !.log = Append(@, "status"),
                                        !.clean = @ /\ o = "ok"])
    /\ UNCHANGED <<flags, vault, files, secret, runNo, lastSave, lastAbort>>

\* One turn of the loop "for { status, err = vaultStatus(vaultAddr) ... }".
PollStatus(r) ==
    /\ orch[r].pc = "WAITING_READY"
    /\ \E o \in HttpOutcomes :
         LET res == vaultStatus(vault, o)
         IN IF res.err
            THEN /\ orch[r].sleeps < MaxPolls
                 /\ Set(r, [orch[r] EXCEPT !.polls = @ + 1, !.sleeps = @ + 1,
                                            !.fails = @ + 1, !.lastPoll = o,
                                            !.log = Append(@, "status"), !.clean = FALSE])
            ELSE Set(r, [orch[r] EXCEPT !.polls = @ + 1, !.status = res.status,
                                        !.lastPoll = o, !.pc = "CHECK_INIT",
                                        !.log = Append(@, "status"),
                                        !.clean = @ /\ o = "ok"])
    /\ UNCHANGED <<flags, vault, files, secret, runNo, lastSave, lastAbort>>

\* if !status.Initialized { ... }
CheckInit(r) ==
    /\ orch[r].pc = "CHECK_INIT"
    /\ Set(r, [orch[r] EXCEPT !.pc = IF ~orch[r].status.Initialized
                                     THEN "INITIALIZING" ELSE "CHECK_SEAL"])
    /\ UNCHANGED <<flags, vault, files, secret, runNo, lastSave, lastAbort>>

\* initResult, err := initializeVault(...); log.Fatalf on err.
Initialize(r) ==
    /\ orch[r].pc = "INITIALIZING"
    /\ \E o \in HttpOutcomes :
         LET res == initializeVault(vault, flags.secretShares, flags.secretThreshold, o)
         IN /\ vault' = res.vault
            /\ IF res.err
               THEN Set(r, [orch[r] EXCEPT !.inits = @ + 1, !.svcInit = res.svc,
                                           !.log = Append(@, "init"), !.clean = FALSE,
                                           !.pc = "FAILED", !.exit = "fatal"])
               ELSE Set(r, [orch[r] EXCEPT !.inits = @ + 1, !.svcInit = res.svc,
                                           !.log = Append(@, "init"),
                                           !.clean = @ /\ o = "ok",
                                           !.initResult = res.val, !.pc = "PERSISTING"])
    /\ UNCHANGED <<flags, files, secret, runNo, lastSave, lastAbort>>

\* Variant of Persist that goes on without handing the result to writeConf.
Persist_NoSave(r) ==
    /\ orch[r].pc = "PERSISTING"
    /\ Set(r, [orch[r] EXCEPT !.saveOk = TRUE, !.pc = "CHECK_SEAL"])
    /\ UNCHANGED <<flags, vault, files, secret, runNo, lastSave, lastAbort>>

\* Variant of Persist that goes on to the seal test when writeConf returns an error.
Persist_IgnoreError(r) ==
    /\ orch[r].pc = "PERSISTING"
    /\ \E io \in IoWriteOutcomes :
         LET res == writeConf(flags, files, secret, orch[r].initResult, io)
         IN /\ files' = res.files
            /\ secret' = res.secret
            /\ Set(r, [orch[r] EXCEPT !.saves = @ + 1, !.saveOk = ~res.err,
                                      !.log = Append(@, "save"),
                                      !.clean = @ /\ ~res.err,
                                      !.pc = "CHECK_SEAL"])
            /\ lastSave' = IF res.err THEN lastSave
                           ELSE [run |-> runNo, val |-> orch[r].initResult,
                                 svcInit |-> orch[r].svcInit]
    /\ UNCHANGED <<flags, vault, runNo, lastAbort>>

\* err = writeConf(..., *initResult); log.Fatalf on err.
Persist(r) ==
    /\ orch[r].pc = "PERSISTING"
    /\ \E io \in IoWriteOutcomes :
         LET res == writeConf(flags, files, secret, orch[r].initResult, io)
         IN /\ files' = res.files
            /\ secret' = res.secret
            /\ IF res.err
               THEN Set(r, [orch[r] EXCEPT !.saves = @ + 1,
                                           !.log = Append(@, "save"), !.clean = FALSE,
                                           !.pc = "FAILED", !.exit = "fatal"])
               ELSE Set(r, [orch[r] EXCEPT !.saves = @ + 1, !.saveOk = TRUE,
                                           !.log = Append(@, "save"),
                                           !.pc = "CHECK_SEAL"])
            /\ lastSave' = IF res.err THEN lastSave
                           ELSE [run |-> runNo, val |-> orch[r].initResult,
                                 svcInit |-> orch[r].svcInit]
    /\ UNCHANGED <<flags, vault, runNo, lastAbort>>

\* Variant of CheckSeal that decides on the state the service is in at that moment
\* instead of on the snapshot of the readiness wait.
CheckSeal_Refreshed(r) ==
    /\ orch[r].pc = "CHECK_SEAL"
    /\ IF vault.sealed
       THEN Set(r, [orch[r] EXCEPT !.pc = "UNSEALING"])
       ELSE Set(r, [orch[r] EXCEPT !.pc = "DONE", !.exit = "success"])
    /\ UNCHANGED <<flags, vault, files, secret, runNo, lastSave, lastAbort>>

\* if status.Sealed { ... }: the snapshot of the readiness wait; otherwise main returns.
CheckSeal(r) ==
    /\ orch[r].pc = "CHECK_SEAL"
    /\ IF orch[r].status.Sealed
       THEN Set(r, [orch[r] EXCEPT !.pc = "UNSEALING"])
       ELSE Set(r, [orch[r] EXCEPT !.pc = "DONE", !.exit = "success"])
    /\ UNCHANGED <<flags, vault, files, secret, runNo, lastSave, lastAbort>>

\* Variant of Load that keeps the in-memory result of initializeVault when the
\* run has just saved it, instead of what readConf returns.
Load_KeepsInitResult(r) ==
    /\ orch[r].pc = "UNSEALING"
    /\ \E io \in IoReadOutcomes :
         LET res == readConf(flags, files, secret, io)
         IN IF res.err
            THEN Set(r, [orch[r] EXCEPT !.loads = @ + 1,
                                        !.log = Append(@, "load"), !.clean = FALSE,
                                        !.pc = "FAILED", !.exit = "panic"])
            ELSE Set(r, [orch[r] EXCEPT !.loads = @ + 1,
                                        !.conf = IF orch[r].saveOk
                                                 THEN orch[r].initResult ELSE res.val,
                                        !.log = Append(@, "load"),
                                        !.pc = "UNSEAL_KEYS"])
    /\ UNCHANGED <<flags, vault, files, secret, runNo, lastSave, lastAbort>>

\* initResult, err := readConf(...); panic on err.
Load(r) ==
    /\ orch[r].pc = "UNSEALING"
    /\ \E io \in IoReadOutcomes :
         LET res == readConf(flags, files, secret, io)
         IN IF res.err
            THEN Set(r, [orch[r] EXCEPT !.loads = @ + 1,
                                        !.log = Append(@, "load"), !.clean = FALSE,
                                        !.pc = "FAILED", !.exit = "panic"])
            ELSE Set(r, [orch[r] EXCEPT !.loads = @ + 1, !.conf = res.val,
                                        !.log = Append(@, "load"),
                                        !.pc = "UNSEAL_KEYS"])
    /\ UNCHANGED <<flags, vault, files, secret, runNo, lastSave, lastAbort>>

\* Variant of mainAfterUnseal that goes back to Load and unseals again when
\* unsealVault returned an error.
mainAfterUnseal_Retry(st, unsealed, err) ==
    [st EXCEPT !.unsealed = unsealed, !.err = err,
               !.i = IF err = "nil" THEN @ ELSE 0,
               !.pc = IF err = "nil" /\ unsealed THEN "DONE"
                      ELSE IF err = "nil" THEN "FAILED" ELSE "UNSEALING",
               !.exit = IF err = "nil" /\ unsealed THEN "success"
                        ELSE IF err = "nil" THEN "logical" ELSE "none"]

\* How main() ends on the return (unsealed, err) of unsealVault.
mainAfterUnseal(st, unsealed, err) ==
    [st EXCEPT !.unsealed = unsealed, !.err = err,
               !.pc = IF err = "nil" /\ unsealed THEN "DONE" ELSE "FAILED",
               !.exit = IF err # "nil" THEN "fatal"
                        ELSE IF unsealed THEN "success" ELSE "logical"]

\* One iteration of "for i := 0; i < len(keys); i++" in unsealVault: the request
\* for keys[i], and the return when the response ends the call.
UnsealKey(r) ==
    /\ orch[r].pc = "UNSEAL_KEYS"
    /\ orch[r].i < GoLen(orch[r].conf.Keys)
    /\ \E o \in HttpOutcomes :
         LET key == orch[r].conf.Keys.elems[orch[r].i + 1]
             res == unsealRequest(vault, key, o)
             st == [orch[r] EXCEPT !.i = @ + 1, !.sent = Append(@, key),
                                   !.resps = Append(@, res.resp),
                                   !.log = Append(@, "unseal"),
                                   !.clean = @ /\ o = "ok"]
         IN /\ vault' = res.vault
            /\ IF res.stop
               THEN Set(r, mainAfterUnseal(st, res.unsealed, res.err))
               ELSE Set(r, st)
    /\ UNCHANGED <<flags, files, secret, runNo, lastSave, lastAbort>>

\* The loop of unsealVault is over: every key was submitted, none opened the vault.
UnsealExhausted(r) ==
    /\ orch[r].pc = "UNSEAL_KEYS"
    /\ orch[r].i >= GoLen(orch[r].conf.Keys)
    /\ Set(r, mainAfterUnseal(orch[r], unsealExhausted.unsealed, unsealExhausted.err))
    /\ UNCHANGED <<flags, vault, files, secret, runNo, lastSave, lastAbort>>

\* ------------------------------------------------------------ environment
\* Between two runs the vault restarts: it comes back sealed, its progress lost.
VaultRestart ==
    /\ vault.initialized
    /\ ~vault.sealed \/ vault.progress # {}
    /\ \A r \in Procs : orch[r].pc \in Terminal \cup {"NOT_STARTED"}
    /\ runNo < MaxRuns
    /\ vault' = [vault EXCEPT !.sealed = TRUE, !.progress = {}]
    /\ UNCHANGED <<flags, files, secret, orch, runNo, lastSave, lastAbort>>

Next ==
    \/ \E r \in Procs : StartRun(r)
    \/ \E r \in Procs : PollStatus(r)
    \/ \E r \in Procs : CheckInit(r)
    \/ \E r \in Procs : Initialize(r)
    \/ \E r \in Procs : Persist(r)
    \/ \E r \in Procs : CheckSeal(r)
    \/ \E r \in Procs : Load(r)
    \/ \E r \in Procs : UnsealKey(r)
    \/ \E r \in Procs : UnsealExhausted(r)
    \/ VaultRestart

Spec == Init /\ [][Next]_vars

\* ------------------------------------------------------ two instances at once
\* Two copies of the program are started against the same service and the same
\* store, each once, and their steps interleave.  The service is one that has not
\* been initialized: the case in which both can come to send an init request.
InitRace == Init /\ vault = FreshVault

\* Instance r is started.
StartInstance(r) ==
    /\ orch[r].pc = "NOT_STARTED"
    /\ runNo' = runNo + 1
    /\ Set(r, [NotStarted EXCEPT !.pc = "WAITING_READY"])
    /\ UNCHANGED <<flags, vault, files, secret, lastSave, lastAbort>>

NextRace ==
    \/ \E r \in Procs : StartInstance(r)
    \/ \E r \in Procs : PollStatus(r)
    \/ \E r \in Procs : CheckInit(r)
    \/ \E r \in Procs : Initialize(r)
    \/ \E r \in Procs : Persist(r)
    \/ \E r \in Procs : CheckSeal(r)
    \/ \E r \in Procs : Load(r)
    \/ \E r \in Procs : UnsealKey(r)
    \/ \E r \in Procs : UnsealExhausted(r)

SpecRace == InitRace /\ [][NextRace]_vars

\* ------------------------------------------------------------- progress
\* A step of the program of instance r.  The program is sequential code and every
\* call it makes returns, so a started run goes on taking steps until it exits.
RunStep(r) ==
    \/ PollStatus(r)
    \/ CheckInit(r)
    \/ Initialize(r)
    \/ Persist(r)
    \/ CheckSeal(r)
    \/ Load(r)
    \/ UnsealKey(r)
    \/ UnsealExhausted(r)

\* A run and the run after it, started in whatever state the first has left the
\* service and the store in, with the vault restarting or not in between.
StartFirstOrSecond == runNo < 2 /\ StartRun(1)

RestartBeforeSecond == runNo < 2 /\ VaultRestart

NextFair ==
    \/ StartFirstOrSecond
    \/ RunStep(1)
    \/ RestartBeforeSecond

SpecFair == Init /\ [][NextFair]_vars /\ WF_vars(RunStep(1))

\* ============================================================ properties
\* The run of instance r has returned from unsealVault.
UnsealReturned(r) == orch[r].pc \in Terminal /\ orch[r].loads = 1 /\ orch[r].exit # "panic"

\* Every key of the loaded sequence was submitted and every response said sealed.
AllKeysStillSealed(r) ==
    /\ GoLen(orch[r].conf.Keys) > 0
    /\ Len(orch[r].resps) = GoLen(orch[r].conf.Keys)
    /\ \A k \in 1..Len(orch[r].resps) : orch[r].resps[k] = "sealed"

\* C1 (as claimed): when every key of a non-empty sequence was submitted and the
\* service answered sealed=true to each, with no transport failure, Unseal returns
\* unsealed=false with no error.
C1_ExhaustedIsNonError ==
    \A r \in Procs :
        UnsealReturned(r) /\ AllKeysStillSealed(r)
            => /\ orch[r].sent = orch[r].conf.Keys.elems
               /\ orch[r].unsealed = FALSE
               /\ orch[r].err = "nil"

\* The index of the first unseal response that reported sealed=false, 0 if none.
FirstOpen(r) ==
    IF \E k \in 1..Len(orch[r].resps) : orch[r].resps[k] = "open"
    THEN CHOOSE k \in 1..Len(orch[r].resps) :
            /\ orch[r].resps[k] = "open"
            /\ \A j \in 1..(k - 1) : orch[r].resps[j] # "open"
    ELSE 0

\* C2: the keys are submitted one request at a time in sequence order from the
\* first key, and the first response reporting sealed=false ends the call: with
\* that response the one to the i-th key, exactly i requests were sent, no later
\* key is submitted, and the call returns unsealed=true without error.
C2_StopsAtFirstOpen ==
    \A r \in Procs :
        /\ Len(orch[r].sent) = Len(orch[r].resps)
        /\ Len(orch[r].sent) <= GoLen(orch[r].conf.Keys)
        /\ orch[r].sent = SubSeq(orch[r].conf.Keys.elems, 1, Len(orch[r].sent))
        /\ FirstOpen(r) # 0
            => /\ Len(orch[r].sent) = FirstOpen(r)
               /\ orch[r].unsealed = TRUE
               /\ orch[r].err = "nil"
               /\ orch[r].pc = "DONE"

\* C2 witness: a call opened by the response to its first key, a key left over.
C2_Witness ==
    \E r \in Procs :
        /\ FirstOpen(r) = 1
        /\ GoLen(orch[r].conf.Keys) >= 2
        /\ orch[r].pc = "DONE"
        /\ vault.initialized /\ ~vault.sealed

\* The run of instance r has returned from readConf without error.
LoadReturned(r) == orch[r].loads = 1 /\ orch[r].exit # "panic"

\* Load reads where Save writes: always in the remote variant, and in the file
\* variant only when -input and -output name the same file.
SamePlace == flags.k8sSecret \/ flags.inputFile = flags.outputFile

\* C3 (as claimed): for either variant and every configuration, a Load after a
\* successful Save(r) with no write in between returns r: the same keys in the
\* same order and the same root token.
C3_RoundTripAnyConfig ==
    \A r \in Procs :
        orch[r].saveOk /\ LoadReturned(r) => orch[r].conf = orch[r].initResult

\* C3 (amended): in the remote variant, and in the file variant when the input
\* path equals the output path, a Load after a successful Save(r) with no write
\* in between finds the document of r and, unless the read itself fails, returns
\* an InitResult identical to r: the same keys in the same order, the same token.
C3_RoundTrip ==
    \A r \in Procs :
        SamePlace /\ orch[r].saveOk
            => /\ readConf(flags, files, secret, "ok") = [err |-> FALSE, val |-> orch[r].initResult]
               /\ LoadReturned(r) => orch[r].conf = orch[r].initResult

\* C3 witness: the keys the service issued were saved and loaded back.
C3_Witness ==
    \E r \in Procs :
        /\ SamePlace /\ orch[r].saveOk /\ LoadReturned(r)
        /\ orch[r].svcInit = "accepted"
        /\ GoLen(orch[r].conf.Keys) = MaxShares
        /\ orch[r].pc = "UNSEAL_KEYS"

\* The record the last successful Save wrote came from a run that initialized the vault.
SavedAfterInit == lastSave.run # 0 /\ lastSave.svcInit = "accepted"

\* A later run than the one that saved, started on the vault initialized and
\* sealed again, has returned from Load.
LaterRunLoaded(r) ==
    /\ SavedAfterInit
    /\ lastSave.run < runNo
    /\ orch[r].status.Initialized /\ orch[r].status.Sealed
    /\ orch[r].lastPoll = "ok"
    /\ LoadReturned(r)

\* C4 (as claimed): a second run with the same configuration, against the vault
\* the first run initialized and now sealed again, Loads exactly the record the
\* first run saved and submits those keys to unseal.
C4_SecondRunLoadsSavedAnyConfig ==
    \A r \in Procs :
        LaterRunLoaded(r)
            => /\ orch[r].conf = lastSave.val
               /\ orch[r].sent = SubSeq(lastSave.val.Keys.elems, 1, Len(orch[r].sent))

\* C4 (amended): the same, in the remote variant and in the file variant when
\* the input path equals the output path.
C4_SecondRunLoadsSaved ==
    \A r \in Procs :
        SamePlace /\ LaterRunLoaded(r)
            => /\ orch[r].conf = lastSave.val
               /\ orch[r].sent = SubSeq(lastSave.val.Keys.elems, 1, Len(orch[r].sent))

\* C4 witness: the second run has submitted keys the first run saved.
C4_Witness ==
    \E r \in Procs :
        /\ SamePlace /\ LaterRunLoaded(r)
        /\ orch[r].saves = 0
        /\ Len(orch[r].sent) >= 1
        /\ orch[r].pc = "DONE"

\* C5: in the remote variant, a Save called while a record exists under the
\* configured namespace and name returns an error (the run ends FAILED) and
\* leaves the stored record as it was.
C5_CreateOnly ==
    [][\A r \in Procs :
          (/\ flags.k8sSecret
           /\ orch[r].pc = "PERSISTING"
           /\ secret.kind # "absent"
           /\ orch'[r].saves = orch[r].saves + 1)
          => (/\ secret' = secret
              /\ ~orch'[r].saveOk
              /\ orch'[r].pc = "FAILED" /\ orch'[r].exit = "fatal"
              /\ lastSave' = lastSave)]_vars

\* C5 witness: the vault was initialized with keys to save, the secret held an
\* earlier record, and the Save has failed.
C5_Witness ==
    \E r \in Procs :
        /\ flags.k8sSecret
        /\ orch[r].svcInit = "accepted"
        /\ orch[r].saves = 1 /\ ~orch[r].saveOk
        /\ orch[r].pc = "FAILED"
        /\ secret.kind = "json"
        /\ secret # MarshalInitResponse(orch[r].initResult)

\* The document at the place Save writes to.
SavedDoc == IF flags.k8sSecret THEN secret ELSE files[flags.outputFile]

\* C6 (as claimed, for the record that holds the keys the service issued): for
\* either variant, once a Save has written the record no later step changes its
\* contents: no later Save, and no Load.
C6_NeverOverwritten ==
    [][(/\ lastSave.run # 0
        /\ lastSave.svcInit = "accepted"
        /\ SavedDoc = MarshalInitResponse(lastSave.val))
       => SavedDoc' = SavedDoc]_vars

\* C7 (as claimed): whenever Initialize returns without error the InitResult holds
\* exactly N keys, N the requested share count, so every InitResult handed to
\* Save has len(keys) = N.
C7_InitResultHasNKeys ==
    \A r \in Procs :
        orch[r].pc = "PERSISTING" => GoLen(orch[r].initResult.Keys) = flags.secretShares

\* C8 (as claimed): when the service rejects the initialization request,
\* Initialize returns an error and the run goes to FAILED without a Save, a Load
\* or an unseal request.
C8_RejectedInitFails ==
    \A r \in Procs :
        orch[r].svcInit = "rejected"
            => /\ orch[r].pc = "FAILED"
               /\ orch[r].saves = 0 /\ orch[r].loads = 0 /\ orch[r].sent = <<>>

\* C9: with the first K status polls failing and the next succeeding, the run has
\* sent exactly K+1 status requests and slept once after each of the K failures,
\* not after the success, when it is in CHECK_INIT; while it waits it has slept
\* after every poll it sent.
C9_PollsAndSleeps ==
    \A r \in Procs :
        /\ orch[r].pc = "WAITING_READY"
              => orch[r].polls = orch[r].fails /\ orch[r].sleeps = orch[r].fails
        /\ orch[r].pc \notin {"NOT_STARTED", "WAITING_READY"}
              => orch[r].polls = orch[r].fails + 1 /\ orch[r].sleeps = orch[r].fails
        /\ orch[r].pc = "CHECK_INIT"
              => orch[r].inits = 0 /\ orch[r].saves = 0 /\ orch[r].loads = 0
                 /\ orch[r].sent = <<>>

\* C9 witness: MaxPolls failed polls, then the successful one.
C9_Witness ==
    \E r \in Procs :
        orch[r].pc = "CHECK_INIT" /\ orch[r].fails = MaxPolls /\ orch[r].polls = MaxPolls + 1

\* C10: the readiness wait has no give-up path.  While the last status poll
\* failed, by a transport failure or by a malformed body alike, the run is in
\* WAITING_READY, has not exited, and has sent no init or unseal request and done
\* no Save or Load; once a poll has succeeded the run is out of WAITING_READY.
C10_WaitNeverGivesUp ==
    \A r \in Procs :
        /\ orch[r].lastPoll \in {"transport", "malformed"}
              => /\ orch[r].pc = "WAITING_READY" /\ orch[r].exit = "none"
                 /\ orch[r].inits = 0 /\ orch[r].saves = 0 /\ orch[r].loads = 0
                 /\ orch[r].sent = <<>>
        /\ orch[r].pc = "WAITING_READY"
              => orch[r].lastPoll \in {"none", "transport", "malformed"}
        /\ orch[r].lastPoll \in {"ok", "errdoc"} => orch[r].pc \notin {"NOT_STARTED", "WAITING_READY"}

\* C10 witness: MaxPolls polls have failed, the last by a malformed body, and the
\* run still waits.
C10_Witness ==
    \E r \in Procs :
        /\ orch[r].pc = "WAITING_READY"
        /\ orch[r].fails = MaxPolls
        /\ orch[r].lastPoll = "malformed"

\* a is an initial segment of b.
IsPrefix(a, b) == Len(a) <= Len(b) /\ a = SubSeq(b, 1, Len(a))

\* The requests and store calls of the failure-free run on a fresh vault, in order.
FreshRunLog(threshold) ==
    <<"status", "init", "save", "load">> \o [k \in 1..threshold |-> "unseal"]

\* Instance r has its snapshot, the snapshot is the one of a fresh vault, the share
\* count and threshold are a pair the service accepts, and no exchange has failed.
FreshRun(r) ==
    /\ orch[r].pc \notin {"NOT_STARTED", "WAITING_READY"}
    /\ orch[r].clean
    /\ ~orch[r].status.Initialized /\ orch[r].status.Sealed
    /\ 1 <= flags.secretThreshold /\ flags.secretThreshold <= flags.secretShares

\* What the failure-free run on a fresh vault does: its requests so far are an
\* initial segment of status, init, Save, Load, T unseals; the unseal requests
\* carry the first keys the service issued; and when it has ended it has ended in
\* DONE with the whole sequence done and the N issued keys saved.
FreshRunAsClaimed(r) ==
    LET issued == [k \in 1..flags.secretShares |-> NewKey(k)]
    IN  /\ IsPrefix(orch[r].log, FreshRunLog(flags.secretThreshold))
        /\ IsPrefix(orch[r].sent, issued)
        /\ orch[r].saves = 1 => lastSave.val.Keys = Slice(issued)
        /\ orch[r].pc \in Terminal
              => /\ orch[r].pc = "DONE" /\ orch[r].exit = "success"
                 /\ orch[r].log = FreshRunLog(flags.secretThreshold)
                 /\ orch[r].sent = SubSeq(issued, 1, flags.secretThreshold)

\* C11 (as claimed): on a fresh vault, with N shares and threshold T, 1 <= T <= N,
\* and no failures, a run does in this order one init request, one Save of the N
\* returned keys, one Load, then T unseal requests carrying key[0]..key[T-1], and
\* exits with success, whatever the configuration.
C11_FreshRunAnyConfig ==
    \A r \in Procs : FreshRun(r) => FreshRunAsClaimed(r)

\* C11 (amended): the same, when Load reads the place Save writes: the remote
\* variant, or the local variant with the input path equal to the output path.
C11_FreshRun ==
    \A r \in Procs : (FreshRun(r) /\ SamePlace) => FreshRunAsClaimed(r)

\* C11 witness: a failure-free run on a fresh vault with threshold MaxShares has
\* ended after MaxShares unseal requests.
C11_Witness ==
    \E r \in Procs :
        /\ FreshRun(r) /\ SamePlace
        /\ flags.secretThreshold = MaxShares
        /\ orch[r].pc = "DONE"
        /\ Len(orch[r].sent) = MaxShares

\* C12 (as claimed): with the vault initialized and sealed and the persisted keys
\* too few to reach the threshold, the run submits all the persisted keys and ends
\* through the logical-failure outcome ("failed to unseal vault", exit status 1),
\* not through the fatal-error outcome a transport error during unseal takes.
C12_TooFewKeysLogicalFailure ==
    \A r \in Procs :
        (/\ orch[r].pc \in Terminal
         /\ orch[r].status.Initialized /\ orch[r].status.Sealed
         /\ LoadReturned(r)
         /\ AllKeysStillSealed(r))
            => /\ orch[r].sent = orch[r].conf.Keys.elems
               /\ orch[r].pc = "FAILED"
               /\ orch[r].exit = "logical"

\* Instance r has entered UNSEALING in its current run.
EnteredUnsealing(r) ==
    orch[r].pc \in {"UNSEALING", "UNSEAL_KEYS"} \/ orch[r].loads >= 1

\* The current run of instance r was ended by Initialize or by Save.
EndedBeforeCheckSeal(r) ==
    /\ orch[r].pc = "FAILED" /\ orch[r].exit = "fatal"
    /\ orch[r].inits = 1 /\ orch[r].loads = 0
    /\ orch[r].saves = 0 \/ ~orch[r].saveOk

\* C13: a run uses one status snapshot for both branches.  The status requests of
\* a run are the failed polls and the first successful one, and they come before
\* every other request; once the run is past INITIALIZING it has sent an init
\* request exactly when the snapshot has initialized=false; it enters UNSEALING
\* only with a snapshot that has sealed=true, and a run that has ended without
\* entering UNSEALING either has a snapshot with sealed=false or was ended by
\* Initialize or Save before the seal check, also when an initialization
\* happened in between.
C13_OneSnapshot ==
    \A r \in Procs :
        /\ orch[r].pc \notin {"NOT_STARTED", "WAITING_READY"}
              => \A k \in 1..Len(orch[r].log) :
                     orch[r].log[k] = "status" <=> k <= orch[r].fails + 1
        /\ orch[r].inits <= 1
        /\ orch[r].inits = 1 => ~orch[r].status.Initialized
        /\ orch[r].pc \in {"PERSISTING", "CHECK_SEAL", "UNSEALING", "UNSEAL_KEYS", "DONE", "FAILED"}
              => (orch[r].inits = 1 <=> ~orch[r].status.Initialized)
        /\ EnteredUnsealing(r) => orch[r].status.Sealed
        /\ (orch[r].pc \in Terminal /\ ~EnteredUnsealing(r))
              => (~orch[r].status.Sealed \/ EndedBeforeCheckSeal(r))
        /\ (orch[r].pc = "DONE" /\ ~EnteredUnsealing(r)) => ~orch[r].status.Sealed

\* C13 witness: a run that initialized the vault has entered UNSEALING on the
\* snapshot taken before the initialization.
C13_Witness ==
    \E r \in Procs :
        /\ orch[r].svcInit = "accepted"
        /\ ~orch[r].status.Initialized /\ orch[r].status.Sealed
        /\ vault.initialized
        /\ orch[r].pc = "UNSEAL_KEYS"

\* The Save of the current run of instance r failed after the service had
\* accepted the run's init request.
SaveFailedAfterInit(r) ==
    orch[r].svcInit = "accepted" /\ orch[r].saves = 1 /\ ~orch[r].saveOk

\* C14: if Save fails after a successful initialization, the run ends in FAILED
\* with no Load and no unseal request; the Save is the last thing the run does, so
\* no request is sent that would undo the initialization; the vault stays
\* initialized with the keys it issued, and neither the files nor the secret hold
\* a record of those keys.
C14_SaveFailureLosesKeys ==
    \A r \in Procs :
        SaveFailedAfterInit(r)
            => /\ orch[r].pc = "FAILED" /\ orch[r].exit = "fatal"
               /\ orch[r].loads = 0
               /\ orch[r].sent = <<>>
               /\ orch[r].inits = 1
               /\ orch[r].log = [k \in 1..(orch[r].fails + 1) |-> "status"] \o <<"init", "save">>
               /\ vault.initialized
               /\ Slice(vault.keys) = orch[r].initResult.Keys
               /\ secret # MarshalInitResponse(orch[r].initResult)
               /\ \A p \in Paths : files[p] # MarshalInitResponse(orch[r].initResult)

\* C14 witness: the remote variant refused the Save of the keys just issued
\* because a secret of that name exists.
C14_Witness ==
    \E r \in Procs :
        /\ SaveFailedAfterInit(r)
        /\ flags.k8sSecret
        /\ secret.kind = "json"
        /\ GoLen(orch[r].initResult.Keys) = MaxShares

\* The document readConf reads: the secret, or the file named by -input.
ReadDoc == IF flags.k8sSecret THEN secret ELSE files[flags.inputFile]

\* C15: on the unseal path a failed Load ends the run in FAILED with no unseal
\* request, and Load fails when no record exists or the persisted document is
\* malformed: a run whose Load returned read a well-formed document and holds
\* what that document decodes to, never a default or empty key sequence put in
\* its place.
C15_LoadFailureEndsRun ==
    \A r \in Procs :
        /\ orch[r].exit = "panic"
              => /\ orch[r].pc = "FAILED"
                 /\ orch[r].loads = 1
                 /\ orch[r].sent = <<>> /\ orch[r].resps = <<>>
                 /\ orch[r].conf = ZeroInitResponse
                 /\ orch[r].log[Len(orch[r].log)] = "load"
        /\ LoadReturned(r)
              => /\ ReadDoc.kind = "json"
                 /\ orch[r].conf = UnmarshalInitResponse(ReadDoc).val
        /\ (orch[r].loads = 1 /\ ReadDoc.kind # "json") => orch[r].exit = "panic"

\* C15 witness: the persisted document is malformed and the run was ended by Load.
C15_Witness ==
    \E r \in Procs :
        /\ orch[r].exit = "panic"
        /\ ReadDoc = Garbage
        /\ orch[r].status.Sealed

\* C15 witness of the other case: no record exists and the run was ended by Load.
C15_WitnessAbsent ==
    \E r \in Procs :
        /\ orch[r].exit = "panic"
        /\ ReadDoc = NoDoc

\* The number of entries of log before position k that are the operation op.
CountBefore(log, k, op) == Cardinality({j \in 1..(k - 1) : log[j] = op})

\* C16: every unseal request of a run comes after exactly one Load of that run,
\* also when the run has done a Save; the keys submitted are, in order, the keys
\* of the record that Load returned, which is what the persisted document decodes
\* to and not the in-memory result of Initialize; and Load is called only with a
\* snapshot that has sealed=true.
C16_UnsealUsesLoadedKeys ==
    \A r \in Procs :
        /\ orch[r].loads <= 1
        /\ \A k \in 1..Len(orch[r].log) :
               orch[r].log[k] = "unseal" => CountBefore(orch[r].log, k, "load") = 1
        /\ orch[r].sent # <<>>
              => /\ LoadReturned(r)
                 /\ orch[r].conf = UnmarshalInitResponse(ReadDoc).val
        /\ IsPrefix(orch[r].sent, orch[r].conf.Keys.elems)
        /\ orch[r].loads >= 1 => orch[r].status.Sealed

\* C16 witness: a run that saved its initialization result has loaded a different
\* record and has submitted a key of the loaded record.
C16_Witness ==
    \E r \in Procs :
        /\ orch[r].saveOk
        /\ orch[r].conf # orch[r].initResult
        /\ Len(orch[r].sent) >= 1
        /\ orch[r].sent[1] = orch[r].conf.Keys.elems[1]

\* C17: a transport error on the request for keys[i] is the last request of the
\* call: Unseal returns the error at once, keys[i+1..] are never submitted, and
\* the run ends in FAILED through the fatal outcome.  The run after it keeps no
\* memory of the position reached: its loop index counts its own requests from
\* zero, and what it submits is again keys[0], keys[1], ... of the loaded record.
C17_TransportErrorAborts ==
    \A r \in Procs :
        /\ \A k \in 1..Len(orch[r].resps) :
               orch[r].resps[k] = "transport"
                   => /\ k = Len(orch[r].resps)
                      /\ Len(orch[r].sent) = k
                      /\ orch[r].i = k
                      /\ orch[r].pc = "FAILED" /\ orch[r].exit = "fatal"
                      /\ orch[r].err = "http" /\ ~orch[r].unsealed
        /\ (r = 1 /\ lastAbort >= 1)
              => /\ orch[r].i = Len(orch[r].sent)
                 /\ IsPrefix(orch[r].sent, orch[r].conf.Keys.elems)

\* C17 witness: the run before was ended by a transport error on its last key,
\* and this run has submitted the first key of the record again.
C17_Witness ==
    /\ lastAbort = MaxShares
    /\ Len(orch[1].sent) >= 1
    /\ orch[1].sent[1] = orch[1].conf.Keys.elems[1]

\* C18 (as claimed): two instances have both seen initialized=false and both have
\* sent an init request to the same service, which accepted one and rejected the
\* other.  The Initialize of the rejected instance returns an error: that
\* instance ends in FAILED without calling Save, so that a record, where one was
\* saved, holds the keys the service issued.
C18_RaceLoserFails ==
    \A w \in Procs : \A l \in Procs \ {w} :
        (/\ orch[w].svcInit = "accepted"
         /\ orch[l].svcInit = "rejected"
         /\ ~orch[w].status.Initialized /\ ~orch[l].status.Initialized)
            => /\ orch[l].pc = "FAILED" /\ orch[l].exit = "fatal"
               /\ orch[l].saves = 0
               /\ (orch[w].saveOk \/ orch[l].saveOk)
                     => UnmarshalInitResponse(SavedDoc).val.Keys = Slice(vault.keys)

\* C19 (as claimed): whenever a run of a single instance reaches DONE, the
\* success exit, the vault is initialized and unsealed at that moment.
C19_DoneMeansUnsealed ==
    [][\A r \in Procs :
          (orch[r].pc # "DONE" /\ orch'[r].pc = "DONE")
              => (vault'.initialized /\ ~vault'.sealed)]_vars

\* The number of entries of log that are the operation op.
Count(log, op) == CountBefore(log, Len(log) + 1, op)

\* What a run has done stays within one init request, one Save, one Load and one
\* unseal request per key of the loaded record, each key submitted once.
WithinOnePass(r) ==
    /\ orch[r].inits <= 1 /\ Count(orch[r].log, "init") = orch[r].inits
    /\ orch[r].saves <= 1 /\ Count(orch[r].log, "save") = orch[r].saves
    /\ orch[r].loads <= 1 /\ Count(orch[r].log, "load") = orch[r].loads
    /\ Count(orch[r].log, "unseal") = Len(orch[r].sent)
    /\ Len(orch[r].sent) <= GoLen(orch[r].conf.Keys)
    /\ orch[r].i = Len(orch[r].sent)
    /\ IsPrefix(orch[r].sent, orch[r].conf.Keys.elems)
    /\ Count(orch[r].log, "status") = orch[r].polls

\* C20: once a status snapshot has been obtained, the run terminates in DONE or
\* FAILED, and on the way it sends at most one init request, does at most one
\* Save and one Load and sends at most len(keys) unseal requests, one per key:
\* nothing but the status poll, which ends with the snapshot, is repeated.
C20_TerminatesInOnePass ==
    /\ [][\A r \in Procs : WithinOnePass(r)']_vars
    /\ (orch[1].pc = "CHECK_INIT") ~> (orch[1].pc \in Terminal)

\* C20 witness: a run has ended after one init request, one Save, one Load and
\* one unseal request for each of the MaxShares keys of the loaded record.
C20_Witness ==
    \E r \in Procs :
        /\ orch[r].pc \in Terminal
        /\ orch[r].inits = 1 /\ orch[r].saves = 1 /\ orch[r].loads = 1
        /\ GoLen(orch[r].conf.Keys) = MaxShares
        /\ Len(orch[r].sent) = MaxShares

====
